---- MODULE Spec2Model ----
(***************************************************************************)
(* Chat-history persistence of BrowserOS.                                  *)
(*                                                                         *)
(*   SQLiteChatMemory / InMemoryChatMemory                                 *)
(*       src/agent/src/lib/runtime/memory/SQLiteChatMemory.ts              *)
(*   PersistentMessageManager (and its vitest file)                        *)
(*       src/unnamed/part_000                                              *)
(*                                                                         *)
(* The base class MessageManager (the in-memory pipeline) and the          *)
(* langchain message classes are not part of the sources at hand; the      *)
(* pipeline is modelled from its documented interface (add, removeLast,    *)
(* clear, setMaxTokens, getMessages) as a plain list.                      *)
(*                                                                         *)
(* Every public call of the program is synchronous, so one action of the   *)
(* model is one whole call.  What the environment decides (whether the     *)
(* native driver loads, whether a statement fails, what time it is) is     *)
(* drawn with \E inside the action.                                        *)
(***************************************************************************)
EXTENDS Integers, Sequences, FiniteSets, TLC

(***************************************************************************)
(* JavaScript values.  A value is a record [t, v]: t is its type tag and   *)
(* v a string (the string itself, or the canonical JSON text of a          *)
(* structured value).                                                      *)
(***************************************************************************)
JS(t, v) == [t |-> t, v |-> v]
Undefined == JS("undefined", "")
Null == JS("null", "null")
Str(s) == JS("string", s)
True == JS("boolean", "true")
Arr(text) == JS("array", text)
Obj(text) == JS("object", text)
\* an object that refers to itself: JSON.stringify throws on it
Cyclic == JS("cyclic", "[object Object]")

\* JavaScript truthiness of a value
Truthy(x) ==
    CASE x.t \in {"undefined", "null"} -> FALSE
      [] x.t = "string" -> x.v # ""
      [] x.t = "number" -> x.v # "0"
      [] x.t = "boolean" -> x.v = "true"
      [] OTHER -> TRUE

\* Array.isArray(x) && x.length > 0
NonEmptyArray(x) == x.t = "array" /\ x.v # "[]"
\* typeof x === 'object' (null excluded by the truthiness test in the code)
IsObjectLike(x) == x.t \in {"array", "object", "cyclic", "metadata"}
\* Object.keys(x).length > 0
HasKeys(x) ==
    CASE x.t \in {"array"} -> x.v # "[]"
      [] x.t \in {"object"} -> x.v # "{}"
      [] x.t = "cyclic" -> TRUE
      [] x.t = "string" -> x.v # ""
      [] OTHER -> FALSE

\* JSON.stringify(x): [threw, value]; value is a string, or undefined for
\* an undefined argument
JSONstringify(x) ==
    CASE x.t = "cyclic" -> [threw |-> TRUE, value |-> Undefined]
      [] x.t = "undefined" -> [threw |-> FALSE, value |-> Undefined]
      [] x.t = "string" ->
            [threw |-> FALSE,
             value |-> Str(CASE x.v = "hi" -> "\"hi\""
                             [] x.v = "" -> "\"\""
                             [] x.v = "[1]" -> "\"[1]\""
                             [] OTHER -> "\"...\"")]
      [] OTHER -> [threw |-> FALSE, value |-> Str(x.v)]

\* JSON.parse(text): [threw, value]
JSONparse(text) ==
    CASE text = "[1]" -> [threw |-> FALSE, value |-> Arr("[1]")]
      [] text = "[]" -> [threw |-> FALSE, value |-> Arr("[]")]
      [] text = "{}" -> [threw |-> FALSE, value |-> Obj("{}")]
      [] text = "{\"k\":1}" -> [threw |-> FALSE, value |-> Obj("{\"k\":1}")]
      [] text = "null" -> [threw |-> FALSE, value |-> Null]
      [] text = "true" -> [threw |-> FALSE, value |-> True]
      [] text = "7" -> [threw |-> FALSE, value |-> JS("number", "7")]
      [] text = "\"hi\"" -> [threw |-> FALSE, value |-> Str("hi")]
      [] text = "\"\"" -> [threw |-> FALSE, value |-> Str("")]
      [] text = "\"[1]\"" -> [threw |-> FALSE, value |-> Str("[1]")]
      [] OTHER -> [threw |-> TRUE, value |-> Undefined]

\* String(x)
StringOf(x) ==
    CASE x.t = "array" /\ x.v = "[1]" -> "1"
      [] x.t = "array" /\ x.v = "[]" -> ""
      [] x.t \in {"object", "cyclic"} -> "[object Object]"
      [] OTHER -> x.v

(***************************************************************************)
(* Messages of the pipeline.  kind is the message class (what              *)
(* _getMessageType answers); a field a class does not have is Undefined.   *)
(***************************************************************************)
MessageTypes == {"system", "human", "ai", "tool", "browser_state", "todo_list"}

Message(kind, content) ==
    [kind |-> kind, content |-> content,
     additional_kwargs |-> Obj("{}"),
     tool_call_id |-> Undefined, status |-> Undefined, artifact |-> Undefined,
     metadata |-> Undefined,
     tool_calls |-> IF kind = "ai" THEN Arr("[]") ELSE Undefined,
     invalid_tool_calls |-> IF kind = "ai" THEN Arr("[]") ELSE Undefined,
     usage_metadata |-> Undefined]

SystemMessage(content) == Message("system", content)
HumanMessage(content) == Message("human", content)
BrowserStateMessage(content) == Message("browser_state", content)
TodoListMessage(content) == Message("todo_list", content)
\* new ToolMessage(fields), new AIMessage(fields): fields is a function
\* from the given field names to values
Field(fields, k, default) == IF k \in DOMAIN fields THEN fields[k] ELSE default
ToolMessage(fields) ==
    [Message("tool", fields["content"]) EXCEPT
        !.tool_call_id = fields["tool_call_id"],
        !.status = Field(fields, "status", Undefined),
        !.artifact = Field(fields, "artifact", Undefined),
        !.metadata = Field(fields, "metadata", Undefined),
        !.additional_kwargs = Field(fields, "additional_kwargs", Obj("{}"))]
AIMessage(fields) ==
    [Message("ai", fields["content"]) EXCEPT
        !.tool_calls = Field(fields, "tool_calls", Arr("[]")),
        !.invalid_tool_calls = Field(fields, "invalid_tool_calls", Arr("[]")),
        !.additional_kwargs = Field(fields, "additional_kwargs", Obj("{}")),
        !.usage_metadata = Field(fields, "usage_metadata", Undefined)]

_getMessageType(message) == message.kind

(***************************************************************************)
(* Rows (ChatMemoryMessage).  metadata is Undefined or Meta(f), f a        *)
(* function from the keys present to their values.  createdAt 0 stands     *)
(* for undefined.                                                          *)
(***************************************************************************)
Meta(f) == [t |-> "metadata", v |-> "", f |-> f]
MetaGet(metadata, k) ==
    IF metadata.t = "metadata" /\ k \in DOMAIN metadata.f
    THEN metadata.f[k] ELSE Undefined

ChatMemoryMessage(role, content, sequence, createdAt, metadata) ==
    [role |-> role, content |-> content, sequence |-> sequence,
     createdAt |-> createdAt, metadata |-> metadata]

(***************************************************************************)
(* PersistentMessageManager: serialization.                                *)
(***************************************************************************)
\* normalizeContent that marks the fallback string conversion as JSON too
normalizeContentFlagOnFailure(message) ==
    LET rawContent == message.content
        encoded == JSONstringify(rawContent)
    IN  IF rawContent.t = "string"
        THEN [content |-> rawContent, isJson |-> FALSE]
        ELSE IF ~encoded.threw
             THEN [content |-> encoded.value, isJson |-> TRUE]
             ELSE [content |-> Str(StringOf(rawContent)), isJson |-> TRUE]

\* normalizeContent(message): SerializedContent
normalizeContent(message) ==
    LET rawContent == message.content
        encoded == JSONstringify(rawContent)
    IN  IF rawContent.t = "string"
        THEN [content |-> rawContent, isJson |-> FALSE]
        ELSE IF ~encoded.threw
             THEN [content |-> encoded.value, isJson |-> TRUE]
             ELSE [content |-> Str(StringOf(rawContent)), isJson |-> FALSE]

\* the keys extractMetadata sets for a message
MetadataKeys(message, contentIsJson) ==
    {k \in {"contentIsJson"} : contentIsJson}
    \cup {k \in {"additional_kwargs"} :
            Truthy(message.additional_kwargs) /\ HasKeys(message.additional_kwargs)}
    \cup {k \in {"toolCallId"} : message.kind = "tool"}
    \cup {k \in {"toolStatus"} : message.kind = "tool" /\ Truthy(message.status)}
    \cup {k \in {"artifact"} : message.kind = "tool" /\ message.artifact # Undefined}
    \cup {k \in {"toolMetadata"} :
            message.kind = "tool" /\ Truthy(message.metadata) /\ HasKeys(message.metadata)}
    \cup {k \in {"toolCalls"} : message.kind = "ai" /\ NonEmptyArray(message.tool_calls)}
    \cup {k \in {"invalidToolCalls"} :
            message.kind = "ai" /\ NonEmptyArray(message.invalid_tool_calls)}
    \cup {k \in {"usageMetadata"} : message.kind = "ai" /\ Truthy(message.usage_metadata)}

MetadataValue(message, k) ==
    CASE k = "contentIsJson" -> True
      [] k = "additional_kwargs" -> message.additional_kwargs
      [] k = "toolCallId" -> message.tool_call_id
      [] k = "toolStatus" -> message.status
      [] k = "artifact" -> message.artifact
      [] k = "toolMetadata" -> message.metadata
      [] k = "toolCalls" -> message.tool_calls
      [] k = "invalidToolCalls" -> message.invalid_tool_calls
      [] k = "usageMetadata" -> message.usage_metadata

\* extractMetadata(message, contentIsJson): the metadata map, or undefined
\* when no entry applies
extractMetadata(message, contentIsJson) ==
    LET keys == MetadataKeys(message, contentIsJson)
    IN  IF keys = {} THEN Undefined
        ELSE Meta([k \in keys |-> MetadataValue(message, k)])

\* serializeMessage that numbers the rows from 1
serializeMessageOneBased(message, sequence, now) ==
    LET serialized == normalizeContent(message)
        metadata == extractMetadata(message, serialized.isJson)
    IN  ChatMemoryMessage(_getMessageType(message), serialized.content,
                          sequence + 1, now, metadata)

\* serializeMessage(message, sequence), Date.now() being now
serializeMessage(message, sequence, now) ==
    LET serialized == normalizeContent(message)
        metadata == extractMetadata(message, serialized.isJson)
    IN  ChatMemoryMessage(_getMessageType(message), serialized.content,
                          sequence, now, metadata)

\* getMessages().map((message, index) => serializeMessage(message, index))
SerializeAll(list, now) ==
    [i \in 1..Len(list) |-> serializeMessage(list[i], i - 1, now)]

(***************************************************************************)
(* PersistentMessageManager: deserialization.                              *)
(***************************************************************************)
\* restoreContent that decodes whatever parses, flagged or not
restoreContentAlwaysDecode(record) ==
    LET decoded == JSONparse(record.content.v)
    IN  IF decoded.threw THEN record.content ELSE decoded.value

\* restoreContent(record)
restoreContent(record) ==
    IF Truthy(MetaGet(record.metadata, "contentIsJson")) /\ Truthy(record.content)
    THEN LET decoded == JSONparse(record.content.v)
         IN  IF decoded.threw THEN record.content ELSE decoded.value
    ELSE record.content

\* typeof content === 'string' ? content : JSON.stringify(content)
ContentAsText(content) ==
    IF content.t = "string" THEN content ELSE JSONstringify(content).value

\* the fields of a tool message with metadata.toolCallId taken as it is
ToolFieldsAnyId(content, metadata) ==
    [content |-> content, tool_call_id |-> MetaGet(metadata, "toolCallId")]

\* the fields deserializeMessage passes to new ToolMessage
ToolFields(content, metadata) ==
    LET keys == {"content", "tool_call_id"}
            \cup {k \in {"status"} : MetaGet(metadata, "toolStatus").t = "string"}
            \cup {k \in {"artifact"} : MetaGet(metadata, "artifact") # Undefined}
            \cup {k \in {"metadata"} :
                    Truthy(MetaGet(metadata, "toolMetadata"))
                    /\ IsObjectLike(MetaGet(metadata, "toolMetadata"))}
            \cup {k \in {"additional_kwargs"} :
                    Truthy(MetaGet(metadata, "additional_kwargs"))
                    /\ IsObjectLike(MetaGet(metadata, "additional_kwargs"))}
    IN  [k \in keys |->
            CASE k = "content" -> content
              [] k = "tool_call_id" ->
                    IF MetaGet(metadata, "toolCallId").t = "string"
                    THEN MetaGet(metadata, "toolCallId") ELSE Str("")
              [] k = "status" -> MetaGet(metadata, "toolStatus")
              [] k = "artifact" -> MetaGet(metadata, "artifact")
              [] k = "metadata" -> MetaGet(metadata, "toolMetadata")
              [] k = "additional_kwargs" -> MetaGet(metadata, "additional_kwargs")]

\* the fields deserializeMessage passes to new AIMessage
AIFields(content, metadata) ==
    LET keys == {"content"}
            \cup {k \in {"tool_calls"} : MetaGet(metadata, "toolCalls").t = "array"}
            \cup {k \in {"invalid_tool_calls"} :
                    MetaGet(metadata, "invalidToolCalls").t = "array"}
            \cup {k \in {"additional_kwargs"} :
                    Truthy(MetaGet(metadata, "additional_kwargs"))
                    /\ IsObjectLike(MetaGet(metadata, "additional_kwargs"))}
            \cup {k \in {"usage_metadata"} :
                    Truthy(MetaGet(metadata, "usageMetadata"))
                    /\ IsObjectLike(MetaGet(metadata, "usageMetadata"))}
    IN  [k \in keys |->
            CASE k = "content" -> content
              [] k = "tool_calls" -> MetaGet(metadata, "toolCalls")
              [] k = "invalid_tool_calls" -> MetaGet(metadata, "invalidToolCalls")
              [] k = "additional_kwargs" -> MetaGet(metadata, "additional_kwargs")
              [] k = "usage_metadata" -> MetaGet(metadata, "usageMetadata")]

\* deserializeMessage whose switch has the default branch only
deserializeMessageAsAI(record) ==
    AIMessage(AIFields(restoreContent(record), record.metadata))

\* deserializeMessage(record)
deserializeMessage(record) ==
    LET content == restoreContent(record)
        metadata == record.metadata
    IN  CASE record.role = "system" -> SystemMessage(content)
          [] record.role = "human" -> HumanMessage(content)
          [] record.role = "tool" -> ToolMessage(ToolFields(content, metadata))
          [] record.role = "browser_state" -> BrowserStateMessage(ContentAsText(content))
          [] record.role = "todo_list" -> TodoListMessage(ContentAsText(content))
          [] OTHER -> AIMessage(AIFields(content, metadata))

(***************************************************************************)
(* SQLiteChatMemory.  db is the database file: the two tables.             *)
(* conversations maps the ids on record to [created_at, updated_at];       *)
(* chat_messages is the rows of the table in rowid order.  sq is one       *)
(* SQLiteChatMemory object: whether database and statements are non-null,  *)
(* the initialized flag and whether the driver is cached.                  *)
(***************************************************************************)
Convs == {"A", "B"}
\* values of Date.now()
Times == {1}

\* opens counts the times this object has opened the file and prepared
\* its statements
NewSQLiteChatMemory ==
    [database |-> FALSE, statements |-> FALSE, initialized |-> FALSE, driver |-> FALSE,
     opens |-> 0]

EmptyDb == [conversations |-> <<>>, chat_messages |-> <<>>]

\* what can happen in ensureDatabase once the driver is loaded: the step
\* that throws, or "ok"
InitOutcomes == {"ok", "open", "prepare"}

\* ensureDatabase without the early return: the file is opened and the
\* statements are prepared on every call
ensureDatabaseAlwaysOpens(sq, installed, outcome) ==
    LET driver == sq.driver \/ installed
    IN  IF ~driver
        THEN [sq EXCEPT !.database = FALSE, !.statements = FALSE]
        ELSE IF outcome = "ok"
             THEN [sq EXCEPT !.driver = TRUE, !.database = TRUE,
                             !.statements = TRUE, !.initialized = TRUE,
                             !.opens = @ + 1]
             ELSE [sq EXCEPT !.driver = TRUE, !.database = FALSE,
                             !.statements = FALSE]

\* ensureDatabase that does not try again once an attempt has failed with
\* the driver loaded
ensureDatabaseNoRetry(sq, installed, outcome) ==
    IF sq.database \/ sq.driver THEN sq
    ELSE LET driver == sq.driver \/ installed
         IN  IF ~driver
             THEN [sq EXCEPT !.database = FALSE, !.statements = FALSE]
             ELSE IF outcome = "ok"
                  THEN [sq EXCEPT !.driver = TRUE, !.database = TRUE,
                                  !.statements = TRUE, !.initialized = TRUE,
                                  !.opens = @ + 1]
                  ELSE [sq EXCEPT !.driver = TRUE, !.database = FALSE,
                                  !.statements = FALSE]

\* ensureDatabase(): the object afterwards.  installed: whether
\* require('better-sqlite3') succeeds on this machine
ensureDatabase(sq, installed, outcome) ==
    IF sq.database THEN sq
    ELSE LET driver == sq.driver \/ installed
         IN  IF ~driver
             THEN [sq EXCEPT !.database = FALSE, !.statements = FALSE]
             ELSE IF outcome = "ok"
                  THEN [sq EXCEPT !.driver = TRUE, !.database = TRUE,
                                  !.statements = TRUE, !.initialized = TRUE,
                                  !.opens = @ + 1]
                  ELSE [sq EXCEPT !.driver = TRUE, !.database = FALSE,
                                  !.statements = FALSE]

\* column value of metadata: NULL, or the JSON text of the map.  A text is
\* [t |-> "text", v, f]: v = "json" when it decodes, to the map f
SqlNull == JS("null", "null")
SqlText(f) == [t |-> "text", v |-> "json", f |-> f]
CorruptText == [t |-> "text", v |-> "{oops", f |-> <<>>]

\* row.metadata ? JSON.stringify(row.metadata) : null
\* (JSON.stringify leaves out the keys whose value is undefined and throws
\* on a cyclic value)
metadataJson(metadata) ==
    IF ~Truthy(metadata) THEN [threw |-> FALSE, value |-> SqlNull]
    ELSE IF metadata.t # "metadata" THEN JSONstringify(metadata)
    ELSE IF \E k \in DOMAIN metadata.f : metadata.f[k] = Cyclic
         THEN [threw |-> TRUE, value |-> SqlNull]
         ELSE [threw |-> FALSE,
               value |-> SqlText([k \in {j \in DOMAIN metadata.f :
                                            metadata.f[j] # Undefined}
                                    |-> metadata.f[k]])]

Fault(at, k) == [at |-> at, k |-> k]
NoFault == Fault("none", 0)
\* what can fail in a write: creating the transaction, or a statement in it
WriteFaults(n) ==
    {NoFault, Fault("transaction", 0), Fault("upsert", 0), Fault("delete", 0)}
    \cup {Fault("insert", k) : k \in 1..n}
ClearFaults ==
    {NoFault, Fault("transaction", 0), Fault("delete", 0), Fault("deleteConversation", 0)}
ReadFaults == {NoFault, Fault("query", 0)}

\* the prepared statements (prepareStatements)
upsertConversation(db, id, created, updated) ==
    [db EXCEPT !.conversations =
        IF id \in DOMAIN @
        THEN [@ EXCEPT ![id].updated_at = updated]
        ELSE [c \in DOMAIN @ \cup {id} |->
                IF c = id THEN [created_at |-> created, updated_at |-> updated]
                ELSE @[c]]]

\* DELETE FROM chat_messages without the WHERE clause
deleteAllMessages(db, id) == [db EXCEPT !.chat_messages = <<>>]

deleteMessages(db, id) ==
    [db EXCEPT !.chat_messages = SelectSeq(@, LAMBDA r : r.conversation_id # id)]

insertMessage(db, id, role, content, metadata, sequence, createdAt) ==
    [db EXCEPT !.chat_messages =
        Append(@, [conversation_id |-> id, role |-> role, content |-> content,
                   metadata |-> metadata, sequence |-> sequence,
                   created_at |-> createdAt])]

\* DELETE FROM conversations WHERE id = ?; the rows of the conversation go
\* with it (ON DELETE CASCADE, foreign_keys = ON)
deleteConversation(db, id) ==
    [db EXCEPT !.conversations = [c \in DOMAIN @ \ {id} |-> @[c]],
               !.chat_messages =
                    IF id \in DOMAIN db.conversations
                    THEN SelectSeq(@, LAMBDA r : r.conversation_id # id)
                    ELSE @]

\* ORDER BY sequence ASC: every row goes to its rank, rows of equal
\* sequence in rowid order
OrderBySequence(rows) ==
    LET n == Len(rows)
        Before(j, i) ==
            \/ rows[j].sequence < rows[i].sequence
            \/ rows[j].sequence = rows[i].sequence /\ j < i
        Rank(i) == Cardinality({j \in 1..n : Before(j, i)}) + 1
    IN  [k \in 1..n |-> rows[CHOOSE i \in 1..n : Rank(i) = k]]

selectMessages(db, id) ==
    OrderBySequence(SelectSeq(db.chat_messages, LAMBDA r : r.conversation_id = id))

\* an insert throws when the environment makes it fail, when the metadata
\* cannot be encoded, or when a NOT NULL column gets no value
InsertThrows(row, k, fault) ==
    \/ fault = Fault("insert", k)
    \/ metadataJson(row.metadata).threw
    \/ row.content.t # "string"

\* the loop of the replace transaction from row k on: [db, threw]
RECURSIVE InsertRows(_, _, _, _, _, _)
InsertRows(db, id, rows, k, now, fault) ==
    IF k > Len(rows) THEN [db |-> db, threw |-> FALSE]
    ELSE IF InsertThrows(rows[k], k, fault) THEN [db |-> db, threw |-> TRUE]
    ELSE InsertRows(
            insertMessage(db, id, rows[k].role, rows[k].content,
                          metadataJson(rows[k].metadata).value, rows[k].sequence,
                          IF rows[k].createdAt = 0 THEN now ELSE rows[k].createdAt),
            id, rows, k + 1, now, fault)

\* a replace handler that inserts the new rows without deleting the old ones
ReplaceBodyNoDelete(db, id, rows, now, fault) ==
    IF fault.at = "upsert" THEN [db |-> db, threw |-> TRUE]
    ELSE IF fault.at = "delete"
         THEN [db |-> upsertConversation(db, id, now, now), threw |-> TRUE]
         ELSE InsertRows(upsertConversation(db, id, now, now),
                         id, rows, 1, now, fault)

\* the handler given to db.transaction in replaceConversation: [db, threw]
ReplaceBody(db, id, rows, now, fault) ==
    IF fault.at = "upsert" THEN [db |-> db, threw |-> TRUE]
    ELSE IF fault.at = "delete"
         THEN [db |-> upsertConversation(db, id, now, now), threw |-> TRUE]
         ELSE InsertRows(deleteMessages(upsertConversation(db, id, now, now), id),
                         id, rows, 1, now, fault)

\* the handler given to db.transaction in clearConversation: [db, threw]
ClearBody(db, id, fault) ==
    IF fault.at = "delete" THEN [db |-> db, threw |-> TRUE]
    ELSE IF fault.at = "deleteConversation"
         THEN [db |-> deleteMessages(db, id), threw |-> TRUE]
         ELSE [db |-> deleteConversation(deleteMessages(db, id), id), threw |-> FALSE]

\* a transaction that keeps what its handler did before it threw
TransactionNoRollback(db, body) == [db |-> body.db, threw |-> body.threw]

\* running a transaction function of better-sqlite3: commit, or roll back
\* to the database as it was and rethrow
Transaction(db, body) ==
    IF body.threw THEN [db |-> db, threw |-> TRUE]
    ELSE [db |-> body.db, threw |-> FALSE]

\* deserializeRow(row)
deserializeRow(row) ==
    ChatMemoryMessage(
        row.role,
        IF row.content.t = "string" THEN row.content ELSE Str(""),
        row.sequence,
        row.created_at,
        IF row.metadata.t = "text" /\ row.metadata.v = "json"
        THEN Meta(row.metadata.f) ELSE Undefined)

(* The public methods.  Each gives the result of one call: the object sq,  *)
(* the file db, whether the call raised to its caller, whether a write     *)
(* was committed, and the value returned.                                  *)
Result(sq, db, raised, committed, rows) ==
    [sq |-> sq, db |-> db, raised |-> raised, committed |-> committed, rows |-> rows]

SQLiteReplaceConversation(sq, db, installed, outcome, id, messages, now, fault) ==
    LET sq1 == ensureDatabase(sq, installed, outcome)
        run == Transaction(db, ReplaceBody(db, id, messages, now, fault))
    IN  IF ~sq1.database \/ ~sq1.statements THEN Result(sq1, db, FALSE, FALSE, <<>>)
        ELSE IF fault.at = "transaction" THEN Result(sq1, db, TRUE, FALSE, <<>>)
        ELSE Result(sq1, run.db, FALSE, ~run.threw, <<>>)

\* a getMessages in which a row that does not decode fails the whole read
SQLiteGetMessagesAbortOnDecode(sq, db, installed, outcome, id, fault) ==
    LET sq1 == ensureDatabase(sq, installed, outcome)
        rows == selectMessages(db, id)
    IN  IF ~sq1.database \/ ~sq1.statements THEN Result(sq1, db, FALSE, FALSE, <<>>)
        ELSE IF fault.at = "query" \/ \E i \in 1..Len(rows) : rows[i].metadata = CorruptText
        THEN Result(sq1, db, FALSE, FALSE, <<>>)
        ELSE Result(sq1, db, FALSE, FALSE,
                    [i \in 1..Len(rows) |-> deserializeRow(rows[i])])

\* getMessages(conversationId)
SQLiteGetMessages(sq, db, installed, outcome, id, fault) ==
    LET sq1 == ensureDatabase(sq, installed, outcome)
        rows == selectMessages(db, id)
    IN  IF ~sq1.database \/ ~sq1.statements THEN Result(sq1, db, FALSE, FALSE, <<>>)
        ELSE IF fault.at = "query" THEN Result(sq1, db, FALSE, FALSE, <<>>)
        ELSE Result(sq1, db, FALSE, FALSE,
                    [i \in 1..Len(rows) |-> deserializeRow(rows[i])])

SQLiteClearConversation(sq, db, installed, outcome, id, fault) ==
    LET sq1 == ensureDatabase(sq, installed, outcome)
        run == Transaction(db, ClearBody(db, id, fault))
    IN  IF ~sq1.database \/ ~sq1.statements THEN Result(sq1, db, FALSE, FALSE, <<>>)
        ELSE IF fault.at = "transaction" THEN Result(sq1, db, TRUE, FALSE, <<>>)
        ELSE Result(sq1, run.db, FALSE, ~run.threw, <<>>)

(***************************************************************************)
(* InMemoryChatMemory.  store is the Map: a function from the ids that     *)
(* have an entry to their rows.                                            *)
(***************************************************************************)
\* { ...message, metadata: message.metadata ? { ...message.metadata } : undefined }
CopyRow(message) ==
    [message EXCEPT !.metadata = IF Truthy(@) THEN @ ELSE Undefined]

InMemoryReplaceConversation(store, id, messages) ==
    [c \in DOMAIN store \cup {id} |->
        IF c = id THEN [i \in 1..Len(messages) |-> CopyRow(messages[i])]
        ELSE store[c]]

InMemoryGetMessages(store, id) ==
    IF id \notin DOMAIN store THEN <<>>
    ELSE [i \in 1..Len(store[id]) |-> CopyRow(store[id][i])]

InMemoryClearConversation(store, id) ==
    [c \in DOMAIN store \ {id} |-> store[c]]

(***************************************************************************)
(* MessageManager, the base pipeline (its source is not at hand): a list   *)
(* of messages and a token limit.                                          *)
(***************************************************************************)
\* position of add when none is given
NoPosition == -1

\* super.add(message, position): messages.splice(position, 0, message), or push
BaseAdd(list, message, position) ==
    IF position = NoPosition \/ position >= Len(list) THEN Append(list, message)
    ELSE SubSeq(list, 1, position) \o <<message>> \o SubSeq(list, position + 1, Len(list))

\* super.removeLast(): [removed, list]
BaseRemoveLast(list) ==
    IF list = <<>> THEN [removed |-> FALSE, list |-> list]
    ELSE [removed |-> TRUE, list |-> SubSeq(list, 1, Len(list) - 1)]

\* super.clear()
BaseClear(list) == <<>>

(***************************************************************************)
(* PersistentMessageManager.  A world w is the state the manager works     *)
(* on: its own fields (memory: which adapter it holds, "sqlite" the        *)
(* SQLiteChatMemory object, "store" the supplied in-memory adapter,        *)
(* "fallback" its own fresh InMemoryChatMemory), the adapters, and what    *)
(* the call in progress did (raised: an exception is on its way to the     *)
(* caller; wrote: the adapter was asked to write; committed: it did).      *)
(* An env e is what the environment decides during one call.               *)
(***************************************************************************)
\* options.conversationId of the managers of the model
ConversationId == "A"

Env(now, outcome, outcome2, fault, failAt) ==
    [now |-> now, outcome |-> outcome, outcome2 |-> outcome2, fault |-> fault,
     failAt |-> failAt]

FromResult(w, r) ==
    [w EXCEPT !.sqlite = r.sq, !.db = r.db, !.raised = r.raised,
              !.wrote = TRUE, !.committed = r.committed]

\* this.memory.replaceConversation(this.conversationId, rows)
MemoryReplaceConversation(w, rows, e) ==
    LET w0 == [w EXCEPT !.calls = Append(@, "replaceConversation"), !.given = rows]
    IN  CASE w0.memory = "sqlite" ->
            FromResult(w0, SQLiteReplaceConversation(w0.sqlite, w0.db, w0.installed,
                              e.outcome, ConversationId, rows, e.now, e.fault))
          [] w0.memory = "store" ->
            [w0 EXCEPT !.store = InMemoryReplaceConversation(@, ConversationId, rows),
                       !.wrote = TRUE, !.committed = TRUE]
          [] w0.memory = "fallback" ->
            [w0 EXCEPT !.fallback = InMemoryReplaceConversation(@, ConversationId, rows),
                       !.wrote = TRUE, !.committed = TRUE]

\* this.memory.clearConversation(this.conversationId)
MemoryClearConversation(w, e) ==
    LET w0 == [w EXCEPT !.calls = Append(@, "clearConversation")]
    IN  CASE w0.memory = "sqlite" ->
            FromResult(w0, SQLiteClearConversation(w0.sqlite, w0.db, w0.installed,
                              e.outcome, ConversationId, e.fault))
          [] w0.memory = "store" ->
            [w0 EXCEPT !.store = InMemoryClearConversation(@, ConversationId),
                       !.wrote = TRUE, !.committed = TRUE]
          [] w0.memory = "fallback" ->
            [w0 EXCEPT !.fallback = InMemoryClearConversation(@, ConversationId),
                       !.wrote = TRUE, !.committed = TRUE]

\* this.memory.getMessages(this.conversationId): [w, rows]
MemoryGetMessages(w, e) ==
    LET w0 == [w EXCEPT !.calls = Append(@, "getMessages")]
    IN  CASE w0.memory = "sqlite" ->
            LET r == SQLiteGetMessages(w0.sqlite, w0.db, w0.installed, e.outcome,
                                       ConversationId, e.fault)
            IN  [w |-> [w0 EXCEPT !.sqlite = r.sq], rows |-> r.rows]
          [] w0.memory = "store" ->
            [w |-> w0, rows |-> InMemoryGetMessages(w0.store, ConversationId)]
          [] w0.memory = "fallback" ->
            [w |-> w0, rows |-> InMemoryGetMessages(w0.fallback, ConversationId)]

\* try { ... } catch { log }: the exception stops here
Swallow(w) == [w EXCEPT !.raised = FALSE]

\* a persistMessages that overwrites row by row and keeps the stored rows
\* beyond the length of its own list
persistMessagesKeepingTail(w, e) ==
    LET stored == MemoryGetMessages(w, Env(1, "ok", "ok", NoFault, 0)).rows
        own == SerializeAll(w.messages, e.now)
    IN  Swallow(MemoryReplaceConversation(
            w, own \o SubSeq(stored, Len(own) + 1, Len(stored)), e))

\* persistMessages()
persistMessages(w, e) ==
    Swallow(MemoryReplaceConversation(w, SerializeAll(w.messages, e.now), e))

\* add that persists the list before the base add has changed it
addPersistFirst(w, message, position, e) ==
    LET w1 == IF ~w.restoring THEN persistMessages(w, e) ELSE w
    IN  [w1 EXCEPT !.messages = BaseAdd(@, message, position)]

\* add(message, position)
add(w, message, position, e) ==
    LET w1 == [w EXCEPT !.messages = BaseAdd(@, message, position)]
    IN  IF ~w1.restoring THEN persistMessages(w1, e) ELSE w1

\* clear that empties the list and leaves the adapter alone
clearListOnly(w, e) == [w EXCEPT !.messages = BaseClear(@)]

\* clear()
clear(w, e) ==
    LET w1 == [w EXCEPT !.messages = BaseClear(@)]
    IN  IF ~w1.restoring THEN Swallow(MemoryClearConversation(w1, e)) ELSE w1

\* a removeLast that persists whether or not a message was removed
removeLastAlwaysPersists(w, e) ==
    LET r == BaseRemoveLast(w.messages)
        w1 == [w EXCEPT !.messages = r.list, !.removed = r.removed]
    IN  IF ~w1.restoring THEN persistMessages(w1, e) ELSE w1

\* removeLast(): the world, removed being what the call returns
removeLast(w, e) ==
    LET r == BaseRemoveLast(w.messages)
        w1 == [w EXCEPT !.messages = r.list, !.removed = r.removed]
    IN  IF r.removed /\ ~w1.restoring THEN persistMessages(w1, e) ELSE w1

\* setMaxTokens(newMaxTokens)
setMaxTokens(w, newMaxTokens, e) ==
    LET w1 == [w EXCEPT !.maxTokens = newMaxTokens]
    IN  IF ~w1.restoring THEN persistMessages(w1, e) ELSE w1

\* createFallbackMemory()
createFallbackMemory(w) == [w EXCEPT !.memory = "fallback", !.fallback = <<>>]

\* initializeMemory that falls back as soon as initialize() has thrown
initializeMemoryStrict(w, supplied, e) ==
    CASE supplied \in {"sqlite", "none"} ->
            LET sq0 == IF supplied = "none" THEN NewSQLiteChatMemory ELSE w.sqlite
                sq1 == ensureDatabase(sq0, w.installed, e.outcome)
                sq2 == ensureDatabase(sq1, w.installed, e.outcome2)
                w1 == [w EXCEPT !.sqlite = sq2, !.available = sq2.database]
            IN  IF sq2.database THEN [w1 EXCEPT !.memory = "sqlite"]
                ELSE createFallbackMemory(w1)
      [] supplied = "store" -> [w EXCEPT !.memory = "store", !.available = TRUE]
      [] supplied \in {"stubUp", "stubDown"} ->
            createFallbackMemory(
                [w EXCEPT !.initThrew = TRUE, !.available = (supplied = "stubUp")])

\* initializeMemory(options).  supplied is options.memory: "sqlite" (the
\* SQLiteChatMemory object at hand), "store" (an InMemoryChatMemory),
\* "stubUp" / "stubDown" (an adapter over the same Map whose initialize()
\* throws and whose isAvailable() answers true / false) or "none"
initializeMemory(w, supplied, e) ==
    CASE supplied \in {"sqlite", "none"} ->
            LET sq0 == IF supplied = "none" THEN NewSQLiteChatMemory ELSE w.sqlite
                sq1 == ensureDatabase(sq0, w.installed, e.outcome)
                sq2 == ensureDatabase(sq1, w.installed, e.outcome2)
                w1 == [w EXCEPT !.sqlite = sq2, !.available = sq2.database]
            IN  IF sq2.database THEN [w1 EXCEPT !.memory = "sqlite"]
                ELSE createFallbackMemory(w1)
      [] supplied = "store" -> [w EXCEPT !.memory = "store", !.available = TRUE]
      [] supplied \in {"stubUp", "stubDown"} ->
            LET w1 == [w EXCEPT !.initThrew = TRUE, !.available = (supplied = "stubUp")]
            IN  IF w1.available THEN [w1 EXCEPT !.memory = "store"]
                ELSE createFallbackMemory(w1)

\* a restore loop that goes through the persisting add: the list is written
\* back to the adapter it was read from
RestoreLoopPersisting(w, storedMessages, failAt) ==
    LET n == IF failAt = 0 THEN Len(storedMessages) ELSE failAt - 1
        w1 == [w EXCEPT !.messages =
                    @ \o [i \in 1..n |-> deserializeMessage(storedMessages[i])],
                  !.restoreThrew = failAt # 0]
    IN  [persistMessages(w1, Env(1, "ok", "ok", NoFault, 0))
            EXCEPT !.wrote = FALSE, !.committed = FALSE]

\* a restore loop that catches the failure of a row and goes on with the
\* rows after it
RestoreLoopSkipping(w, storedMessages, failAt) ==
    LET kept == SelectSeq([i \in 1..Len(storedMessages) |-> i],
                          LAMBDA i : i # failAt)
    IN  [w EXCEPT !.messages =
            @ \o [j \in 1..Len(kept) |-> deserializeMessage(storedMessages[kept[j]])],
            !.restoreThrew = failAt # 0, !.failedAt = failAt]

\* the loop of restoreFromMemory: the messages appended before row failAt
\* throws (failAt = 0: no row throws)
RestoreLoop(w, storedMessages, failAt) ==
    LET n == IF failAt = 0 THEN Len(storedMessages) ELSE failAt - 1
    IN  [w EXCEPT !.messages =
            @ \o [i \in 1..n |-> deserializeMessage(storedMessages[i])],
            !.restoreThrew = failAt # 0, !.failedAt = failAt]

\* a restoreFromMemory without the finally block: the flag is cleared only
\* when the loop ran to its end
restoreFromMemoryNoFinally(w, e) ==
    LET got == MemoryGetMessages(w, e)
        storedMessages == got.rows
        failAt == IF e.failAt > Len(storedMessages) THEN 0 ELSE e.failAt
        w1 == [got.w EXCEPT !.loaded = Len(storedMessages)]
    IN  IF Len(storedMessages) = 0 THEN w1
        ELSE [RestoreLoop([w1 EXCEPT !.restoring = TRUE], storedMessages, failAt)
                EXCEPT !.restoring = (failAt # 0)]

\* restoreFromMemory()
restoreFromMemory(w, e) ==
    LET got == MemoryGetMessages(w, e)
        storedMessages == got.rows
        failAt == IF e.failAt > Len(storedMessages) THEN 0 ELSE e.failAt
        w1 == [got.w EXCEPT !.loaded = Len(storedMessages)]
    IN  IF Len(storedMessages) = 0 THEN [w1 EXCEPT !.restoring = FALSE]
        ELSE [RestoreLoop([w1 EXCEPT !.restoring = TRUE], storedMessages, failAt)
                EXCEPT !.restoring = FALSE]

\* constructor(options)
constructor(w, supplied, maxTokens, e) ==
    restoreFromMemory(
        initializeMemory(
            [w EXCEPT !.messages = <<>>, !.maxTokens = maxTokens,
                      !.restoring = FALSE, !.fallback = <<>>],
            supplied, e),
        e)

(***************************************************************************)
(* Inputs.                                                                 *)
(***************************************************************************)
\* longest list the pipeline is grown to
MaxLen == 3
\* failures the environment produces in one run (a failing open, statement,
\* query or replayed row); a missing driver is not counted
MaxFaults == 1

\* messages handed to add: a string that is valid JSON text, and a
\* structured content on a message with metadata of its own (system and ai
\* rows come from the seeded stores)
AddInputs ==
    {HumanMessage(Str("[1]")),
     ToolMessage([content |-> Arr("[1]"), tool_call_id |-> Str("c1")])}

\* values handed to setMaxTokens and to the constructor
TokenLimits == {1000}

\* row lists handed to replaceConversation by a caller of the adapter
RowsJson ==
    <<ChatMemoryMessage("system", Str("hi"), 0, 1, Undefined),
      ChatMemoryMessage("ai", Str("[1]"), 1, 1, Meta([contentIsJson |-> True]))>>
RowsUnordered ==
    <<ChatMemoryMessage("human", Str("[1]"), 1, 1, Undefined),
      ChatMemoryMessage("system", Str("hi"), 0, 0, Undefined)>>
RowsForeign ==
    <<ChatMemoryMessage("function", Str("[1]"), 0, 1, Meta([contentIsJson |-> True])),
      ChatMemoryMessage("tool", Str("hi"), 1, 1, Meta([toolCallId |-> Str("c1")]))>>
RowsUnencodable ==
    <<ChatMemoryMessage("human", Str("[1]"), 0, 1, Undefined),
      ChatMemoryMessage("tool", Str("hi"), 1, 1,
                        Meta([toolCallId |-> Str("c1"), artifact |-> Cyclic]))>>
RowInputs == {<<>>, RowsJson, RowsUnordered, RowsForeign, RowsUnencodable}
SeedRows == {RowsJson, RowsUnordered, RowsForeign}

(***************************************************************************)
(* State.                                                                  *)
(***************************************************************************)
VARIABLES
    options,          \* options.memory of the managers of this run
    sqlite,           \* the SQLiteChatMemory object
    driverInstalled,  \* whether better-sqlite3 can be loaded on this machine
    db,               \* the database file
    store,            \* the Map of the InMemoryChatMemory object
    fallback,         \* the Map of the manager's own fallback adapter
    live,             \* a PersistentMessageManager has been constructed
    memory,           \* this.memory: "sqlite", "store" or "fallback"
    messages,         \* the list of the pipeline
    maxTokens,        \* the token limit of the pipeline
    restoring,        \* this.restoring
    faults,           \* failures the environment has produced so far
    synced,           \* history: the manager's latest write request was committed
    allWritesOk,      \* history: every write request of the manager was committed
    heap,             \* the objects rows refer to from inside their metadata
    other,            \* a second PersistentMessageManager on the same adapter
    last              \* history: the latest call and what it did

vars == <<options, sqlite, driverInstalled, db, store, fallback, live, memory,
          messages, maxTokens, restoring, faults, synced, allWritesOk, heap, other,
          last>>

Options == {"sqlite", "store", "stubUp", "stubDown", "none"}

\* A value nested inside a metadata map (a tool-call list) is an object of
\* its own: the map holds a reference to it, and heap gives the JSON text of
\* the object each reference points to
Refs == {"r1"}
Ref(r) == JS("ref", r)
NestedTexts == {"[1]", "[]"}
\* a row list whose metadata holds a reference to a tool-call list
RowsShared ==
    <<ChatMemoryMessage("ai", Str("hi"), 0, 1, Meta([toolCalls |-> Ref("r1")]))>>

\* what a reader of rows sees under heap h: each reference followed
Seen(h, rows) ==
    [i \in 1..Len(rows) |->
        [rows[i] EXCEPT !.metadata =
            IF @.t = "metadata"
            THEN Meta([k \in DOMAIN @.f |->
                        IF @.f[k].t = "ref" THEN Arr(h[@.f[k].v]) ELSE @.f[k]])
            ELSE @]]

NoCall ==
    [op |-> "none", target |-> "", conv |-> "", raised |-> FALSE, wrote |-> FALSE,
     committed |-> FALSE, removed |-> FALSE, rows |-> <<>>, answer |-> FALSE,
     initThrew |-> FALSE, available |-> FALSE,
     restoreThrew |-> FALSE, loaded |-> 0, before |-> 0, fault |-> NoFault,
     failedAt |-> 0, calls |-> <<>>, given |-> <<>>, afterPartial |-> FALSE,
     retried |-> FALSE, by |-> 0]

\* the second manager before it is constructed
NoController ==
    [messages |-> <<>>, maxTokens |-> 1000, restoring |-> FALSE, live |-> FALSE]

\* nothing stored, no manager constructed
Unused ==
    /\ sqlite = NewSQLiteChatMemory
    /\ driverInstalled \in IF options \in {"sqlite", "none"} THEN BOOLEAN ELSE {FALSE}
    /\ db = EmptyDb
    /\ store = <<>>
    /\ fallback = <<>>
    /\ live = FALSE
    /\ memory = "fallback"
    /\ maxTokens = 1000
    /\ restoring = FALSE
    /\ faults = 0
    /\ synced = FALSE
    /\ allWritesOk = TRUE
    /\ heap = [r \in Refs |-> "[1]"]
    /\ other = NoController

\* the state before any call
Start ==
    /\ Unused
    /\ messages = <<>>
    /\ last = NoCall

Init ==
    /\ options \in Options
    /\ Start

\* the world a call of the manager starts in
World ==
    [sqlite |-> sqlite, installed |-> driverInstalled, db |-> db, store |-> store,
     fallback |-> fallback, memory |-> memory, messages |-> messages,
     maxTokens |-> maxTokens, restoring |-> restoring,
     raised |-> FALSE, wrote |-> FALSE, committed |-> FALSE, removed |-> FALSE,
     available |-> FALSE, initThrew |-> FALSE, restoreThrew |-> FALSE, loaded |-> 0,
     failedAt |-> 0, calls |-> <<>>, given |-> <<>>]

\* an environment in which nothing fails
Calm == Env(1, "ok", "ok", NoFault, 0)
\* e holds a failure
Failing(e) ==
    e.outcome # "ok" \/ e.outcome2 # "ok" \/ e.fault # NoFault \/ e.failAt # 0
\* the environment may produce e now, and the count afterwards
Allowed(e) ==
    /\ Failing(e) => faults < MaxFaults
    /\ faults' = faults + (IF Failing(e) THEN 1 ELSE 0)

\* the state after a call of the manager that ended in world w
Becomes(w, call) ==
    /\ sqlite' = w.sqlite
    /\ db' = w.db
    /\ store' = w.store
    /\ fallback' = w.fallback
    /\ memory' = w.memory
    /\ messages' = w.messages
    /\ maxTokens' = w.maxTokens
    /\ restoring' = w.restoring
    /\ last' = [call EXCEPT !.raised = w.raised, !.wrote = w.wrote,
                            !.committed = w.committed, !.removed = w.removed,
                            !.calls = w.calls, !.given = w.given]
    /\ UNCHANGED <<options, driverInstalled, heap, other>>

Mutated(w, op) ==
    /\ Becomes(w, [NoCall EXCEPT
            !.op = op, !.before = Len(messages),
            !.afterPartial = (last.op = "construct" /\ last.restoreThrew),
            !.loaded = IF last.op = "construct" /\ last.restoreThrew
                       THEN last.loaded ELSE 0])
    /\ synced' = IF w.wrote THEN w.committed ELSE synced
    /\ allWritesOk' = (allWritesOk /\ (w.wrote => w.committed))
    /\ UNCHANGED live

\* what the environment decides during a write of n rows by the manager:
\* with the SQLite adapter the transaction cannot be created or the insert
\* of the last row fails; the in-memory adapters do not fail
WriteEnvs(n) ==
    {Env(now, "ok", "ok", fault, 0) :
        now \in Times,
        fault \in IF memory = "sqlite"
                  THEN {NoFault, Fault("transaction", 0)}
                       \cup {Fault("insert", k) : k \in {n} \ {0}}
                  ELSE {NoFault}}

ClearEnvs ==
    {Env(now, "ok", "ok", fault, 0) :
        now \in Times,
        fault \in IF memory = "sqlite" THEN ClearFaults ELSE {NoFault}}

\* what the environment decides while the adapter is chosen: the outcome
\* of each of the two ensureDatabase calls on the object at hand (a
\* manager that makes its own object is unavailable through a missing
\* driver only)
InitEnvs ==
    IF options = "sqlite" /\ ~sqlite.database /\ driverInstalled
    THEN {Env(1, o1, o2, NoFault, 0) : o1 \in InitOutcomes, o2 \in InitOutcomes}
    ELSE {Calm}

\* what the environment decides during the restore: whether the query
\* fails, and which of the rows loaded throws when it is replayed
RestoreEnvs(w) ==
    {Env(1, "ok", "ok", fault, failAt) :
        fault \in IF w.memory = "sqlite" THEN ReadFaults ELSE {NoFault},
        failAt \in 0..Len(MemoryGetMessages(w, Calm).rows)}

(***************************************************************************)
(* Calls on a PersistentMessageManager.                                    *)
(***************************************************************************)
Construct ==
    \E limit \in TokenLimits, e1 \in InitEnvs :
        \E e2 \in RestoreEnvs(initializeMemory(World, options, e1)) :
          LET e == [e1 EXCEPT !.fault = e2.fault,
                        !.failAt = IF e2.fault = NoFault THEN e2.failAt ELSE 0]
              w == constructor(World, options, limit, e)
          IN  /\ Allowed(e)
              /\ Becomes(w, [NoCall EXCEPT
                      !.op = "construct", !.before = Len(messages),
                      !.initThrew = w.initThrew, !.available = w.available,
                      !.restoreThrew = w.restoreThrew, !.loaded = w.loaded,
                      !.failedAt = w.failedAt])
              /\ live' = TRUE
              /\ synced' = FALSE
              /\ allWritesOk' = TRUE

\* add(message) appends; add(message, 0) inserts at the front
AddPositions == {NoPosition, 0}

Add ==
    /\ live
    /\ Len(messages) < MaxLen
    /\ \E message \in AddInputs, position \in AddPositions,
          e \in WriteEnvs(Len(messages) + 1) :
            /\ Allowed(e)
            /\ Mutated(add(World, message, position, e), "add")

RemoveLast ==
    /\ live
    /\ \E e \in WriteEnvs(Len(messages) - 1) :
            /\ Allowed(e)
            /\ Mutated(removeLast(World, e), "removeLast")

Clear ==
    /\ live
    /\ \E e \in ClearEnvs :
            /\ Allowed(e)
            /\ Mutated(clear(World, e), "clear")

SetMaxTokens ==
    /\ live
    /\ \E newMaxTokens \in TokenLimits, e \in WriteEnvs(Len(messages)) :
            /\ Allowed(e)
            /\ Mutated(setMaxTokens(World, newMaxTokens, e), "setMaxTokens")

(***************************************************************************)
(* Calls on the adapters by other callers.                                 *)
(***************************************************************************)
\* the state after a call on the SQLiteChatMemory object with result r
SQLiteCall(r, call) ==
    /\ sqlite' = r.sq
    /\ db' = r.db
    /\ last' = [call EXCEPT !.target = "sqlite", !.raised = r.raised,
                            !.committed = r.committed,
                            !.rows = r.rows, !.answer = r.sq.database,
                            !.retried = sqlite.driver /\ ~sqlite.database]
    /\ UNCHANGED <<options, driverInstalled, store, fallback, live, memory,
                   messages, maxTokens, restoring, synced, allWritesOk, heap, other>>

\* the state after a call on the InMemoryChatMemory object
InMemoryCall(newStore, rows, call) ==
    /\ store' = newStore
    /\ last' = [call EXCEPT !.target = "store", !.committed = TRUE,
                            !.rows = rows, !.answer = TRUE]
    /\ UNCHANGED <<options, sqlite, driverInstalled, db, fallback, live, memory,
                   messages, maxTokens, restoring, synced, allWritesOk, heap, other>>

\* what the environment decides in an ensureDatabase call
OpenEnvs ==
    IF ~sqlite.database /\ (sqlite.driver \/ driverInstalled)
    THEN {Env(1, o, "ok", NoFault, 0) : o \in InitOutcomes}
    ELSE {Calm}

\* memory.isAvailable() on the SQLiteChatMemory object (as the test file does)
Probe ==
    \E e \in OpenEnvs :
        /\ options = "sqlite"
        /\ Allowed(e)
        /\ SQLiteCall(Result(ensureDatabase(sqlite, driverInstalled, e.outcome), db,
                             FALSE, FALSE, <<>>),
                      [NoCall EXCEPT !.op = "isAvailable"])

\* rows put into the store at hand before the first manager is constructed
Seed ==
    /\ ~live
    /\ last.op = "none"
    /\ UNCHANGED faults
    /\ \E rows \in SeedRows, now \in Times :
        \/ /\ options \in {"sqlite", "none"}
           /\ SQLiteCall(SQLiteReplaceConversation(sqlite, db, driverInstalled, "ok",
                            ConversationId, rows, now, NoFault),
                         [NoCall EXCEPT !.op = "replaceConversation",
                                        !.conv = ConversationId])
        \/ /\ options \in {"store", "stubUp", "stubDown"}
           /\ InMemoryCall(InMemoryReplaceConversation(store, ConversationId, rows),
                           <<>>,
                           [NoCall EXCEPT !.op = "replaceConversation",
                                          !.conv = ConversationId])

\* memory.initialize()
Initialize ==
    \/ /\ options = "sqlite"
       /\ \E e \in OpenEnvs :
            /\ Allowed(e)
            /\ SQLiteCall(Result(ensureDatabase(sqlite, driverInstalled, e.outcome), db,
                                 FALSE, FALSE, <<>>),
                          [NoCall EXCEPT !.op = "initialize"])
    \/ /\ options = "store"
       /\ UNCHANGED faults
       /\ InMemoryCall(store, <<>>, [NoCall EXCEPT !.op = "initialize"])

\* memory.isAvailable()
IsAvailable ==
    \/ /\ options = "sqlite"
       /\ \E e \in OpenEnvs :
            /\ Allowed(e)
            /\ SQLiteCall(Result(ensureDatabase(sqlite, driverInstalled, e.outcome), db,
                                 FALSE, FALSE, <<>>),
                          [NoCall EXCEPT !.op = "isAvailable"])
    \/ /\ options = "store"
       /\ UNCHANGED faults
       /\ InMemoryCall(store, <<>>, [NoCall EXCEPT !.op = "isAvailable"])

\* memory.replaceConversation(id, rows)
ReplaceConversation ==
    \E id \in Convs, rows \in RowInputs :
        \/ /\ options = "sqlite"
           /\ \E e0 \in OpenEnvs, fault \in WriteFaults(Len(rows)) :
                LET e == [e0 EXCEPT !.fault = fault]
                IN  /\ Allowed(e)
                    /\ SQLiteCall(SQLiteReplaceConversation(sqlite, db, driverInstalled,
                                        e.outcome, id, rows, e.now, e.fault),
                                  [NoCall EXCEPT !.op = "replaceConversation",
                                                 !.conv = id, !.fault = fault,
                                                 !.before = Len(rows)])
        \/ /\ options = "store"
           /\ UNCHANGED faults
           /\ InMemoryCall(InMemoryReplaceConversation(store, id, rows), <<>>,
                           [NoCall EXCEPT !.op = "replaceConversation", !.conv = id,
                                          !.before = Len(rows)])

\* memory.getMessages(id)
GetMessages ==
    \E id \in Convs :
        \/ /\ options = "sqlite"
           /\ \E e0 \in OpenEnvs, fault \in ReadFaults :
                LET e == [e0 EXCEPT !.fault = fault]
                IN  /\ Allowed(e)
                    /\ SQLiteCall(SQLiteGetMessages(sqlite, db, driverInstalled,
                                        e.outcome, id, e.fault),
                                  [NoCall EXCEPT !.op = "getMessages", !.conv = id,
                                                 !.fault = fault])
        \/ /\ options = "store"
           /\ UNCHANGED faults
           /\ InMemoryCall(store, InMemoryGetMessages(store, id),
                           [NoCall EXCEPT !.op = "getMessages", !.conv = id])

\* memory.clearConversation(id)
ClearConversation ==
    \E id \in Convs :
        \/ /\ options = "sqlite"
           /\ \E e0 \in OpenEnvs, fault \in ClearFaults :
                LET e == [e0 EXCEPT !.fault = fault]
                IN  /\ Allowed(e)
                    /\ SQLiteCall(SQLiteClearConversation(sqlite, db, driverInstalled,
                                        e.outcome, id, e.fault),
                                  [NoCall EXCEPT !.op = "clearConversation",
                                                 !.conv = id, !.fault = fault])
        \/ /\ options = "store"
           /\ UNCHANGED faults
           /\ InMemoryCall(InMemoryClearConversation(store, id), <<>>,
                           [NoCall EXCEPT !.op = "clearConversation", !.conv = id])

Next ==
    \/ Seed
    \/ Probe
    \/ Construct
    \/ Add
    \/ RemoveLast
    \/ Clear
    \/ SetMaxTokens

Spec == Init /\ [][Next]_vars

\* the adapters called directly, one backend in a run
AdapterInit ==
    /\ options \in {"sqlite", "store"}
    /\ Start

\* another program on the database file puts text that is not JSON into the
\* metadata column of one row that held JSON text (one such row at a time)
Corrupt ==
    /\ options = "sqlite"
    /\ \A i \in 1..Len(db.chat_messages) : db.chat_messages[i].metadata # CorruptText
    /\ \E i \in 1..Len(db.chat_messages) :
        /\ db.chat_messages[i].metadata.t = "text"
        /\ db' = [db EXCEPT !.chat_messages[i].metadata = CorruptText]
        /\ last' = [NoCall EXCEPT !.op = "corrupt",
                                  !.conv = db.chat_messages[i].conversation_id]
    /\ UNCHANGED <<options, sqlite, driverInstalled, store, fallback, live, memory,
                   messages, maxTokens, restoring, faults, synced, allWritesOk, heap,
                   other>>

AdapterNext ==
    \/ Corrupt
    \/ Initialize
    \/ IsAvailable
    \/ ReplaceConversation
    \/ GetMessages
    \/ ClearConversation

AdapterSpec == AdapterInit /\ [][AdapterNext]_vars

(***************************************************************************)
(* A caller of InMemoryChatMemory that keeps the row objects it passed or  *)
(* received (last.rows) and changes them afterwards.                       *)
(***************************************************************************)
\* the state after the caller has changed an object it holds
CallerMutated(rows, h) ==
    /\ last' = [NoCall EXCEPT !.op = "mutate", !.target = "store", !.rows = rows]
    /\ heap' = h
    /\ UNCHANGED <<options, sqlite, driverInstalled, db, store, fallback, live,
                   memory, messages, maxTokens, restoring, faults, synced,
                   allWritesOk, other>>

\* store.replaceConversation(id, rows): rows is a fresh list or the list held
CallerReplace ==
    \E id \in Convs, rows \in {RowsShared, last.rows} \ {<<>>} :
        /\ UNCHANGED faults
        /\ InMemoryCall(InMemoryReplaceConversation(store, id, rows), rows,
                        [NoCall EXCEPT !.op = "replaceConversation", !.conv = id,
                                       !.before = Len(rows)])

\* rows = store.getMessages(id)
CallerGet ==
    \E id \in Convs :
        /\ UNCHANGED faults
        /\ InMemoryCall(store, InMemoryGetMessages(store, id),
                        [NoCall EXCEPT !.op = "getMessages", !.conv = id])

\* rows[i].content = 'changed'; rows[i].sequence = 7
MutateField ==
    \E i \in 1..Len(last.rows) :
        CallerMutated([last.rows EXCEPT ![i].content = Str("changed"),
                                        ![i].sequence = 7], heap)

\* rows[i].metadata[k] = 'changed'
MutateMetadataKey ==
    \E i \in 1..Len(last.rows) :
        /\ last.rows[i].metadata.t = "metadata"
        /\ \E k \in DOMAIN last.rows[i].metadata.f :
            CallerMutated([last.rows EXCEPT ![i].metadata.f[k] = Str("changed")], heap)

\* rows[i].metadata[k].pop() / .push(...): the object itself is changed
MutateNested ==
    \E i \in 1..Len(last.rows) :
        /\ last.rows[i].metadata.t = "metadata"
        /\ \E k \in DOMAIN last.rows[i].metadata.f, text \in NestedTexts :
            /\ last.rows[i].metadata.f[k].t = "ref"
            /\ CallerMutated(last.rows,
                             [heap EXCEPT ![last.rows[i].metadata.f[k].v] = text])

CopyInit ==
    /\ options = "store"
    /\ Start

CopyNext ==
    \/ CallerReplace
    \/ CallerGet
    \/ MutateField
    \/ MutateMetadataKey
    \/ MutateNested

CopySpec == CopyInit /\ [][CopyNext]_vars

(***************************************************************************)
(* serializeMessage and deserializeMessage applied in turn to one message  *)
(* or one row: messages and last.rows hold the chain of results.           *)
(***************************************************************************)
\* longest chain of conversions
MaxChain == 3

\* contents of a message: strings (one of them valid JSON text, one empty),
\* structured values, and a structure JSON.stringify throws on
CodecStrings == {Str("hi"), Str("[1]"), Str("")}
CodecStructures == {Arr("[1]"), Arr("[]"), Obj("{\"k\":1}")}
CodecContents == CodecStrings \cup CodecStructures \cup {Cyclic}

CodecMessages ==
    {SystemMessage(c) : c \in CodecContents}
    \cup {HumanMessage(c) : c \in CodecContents}
    \cup {AIMessage([content |-> c]) : c \in CodecContents}
    \cup {AIMessage([content |-> c, tool_calls |-> Arr("[1]"),
                     usage_metadata |-> Obj("{\"k\":1}")]) : c \in CodecContents}
    \cup {ToolMessage([content |-> c, tool_call_id |-> Str("c1")]) : c \in CodecContents}
    \cup {ToolMessage([content |-> c, tool_call_id |-> Str("c1"),
                       status |-> Str("hi"), artifact |-> Obj("{\"k\":1}")]) :
            c \in CodecContents}

\* stored rows: every known role and a foreign one, with and without the
\* content flag, with a string, a non-string and no tool-call id
CodecRoles == MessageTypes \cup {"function"}
CodecMetadata ==
    {Undefined,
     Meta([contentIsJson |-> True]),
     Meta([toolCallId |-> Str("c1")]),
     Meta([toolCallId |-> JS("number", "7"), contentIsJson |-> True])}
CodecRows ==
    {ChatMemoryMessage(role, content, 0, 1, metadata) :
        role \in CodecRoles, content \in {Str("hi"), Str("[1]")},
        metadata \in CodecMetadata}

CodecInit ==
    /\ options = "store"
    /\ Unused
    /\ \/ messages \in {<<m>> : m \in CodecMessages} /\ last = NoCall
       \/ messages = <<>> /\ last \in {[NoCall EXCEPT !.rows = <<row>>] : row \in CodecRows}

\* the state after a conversion
Converted(list, rows, op) ==
    /\ messages' = list
    /\ last' = [last EXCEPT !.op = op, !.rows = rows]
    /\ UNCHANGED <<options, sqlite, driverInstalled, db, store, fallback, live,
                   memory, maxTokens, restoring, faults, synced, allWritesOk, heap,
                   other>>

\* row = serializeMessage(message, sequence) of the latest message
Serialize ==
    /\ Len(messages) + Len(last.rows) < MaxChain
    /\ messages # <<>>
    /\ last.op \in {"none", "deserializeMessage"}
    /\ \E now \in Times :
        Converted(messages,
                  Append(last.rows, serializeMessage(messages[Len(messages)], 0, now)),
                  "serializeMessage")

\* message = deserializeMessage(row) of the latest row
Deserialize ==
    /\ Len(messages) + Len(last.rows) < MaxChain
    /\ last.rows # <<>>
    /\ last.op \in {"none", "serializeMessage"}
    /\ Converted(Append(messages, deserializeMessage(last.rows[Len(last.rows)])),
                 last.rows, "deserializeMessage")

CodecNext ==
    \/ Serialize
    \/ Deserialize

CodecSpec == CodecInit /\ [][CodecNext]_vars

(***************************************************************************)
(* Two PersistentMessageManager objects given the same adapter object and  *)
(* the same conversation id, their calls interleaved call by call (every   *)
(* method is synchronous).  Manager 1 is the variables messages, maxTokens,*)
(* restoring and live; manager 2 is the record other.                      *)
(***************************************************************************)
\* longest list of one of the two managers
MaxDuo == 2

Controllers == {1, 2}

\* the world a call of manager c starts in
DuoWorld(c) ==
    IF c = 1 THEN World
    ELSE [World EXCEPT !.messages = other.messages, !.maxTokens = other.maxTokens,
                       !.restoring = other.restoring]

DuoLive(c) == IF c = 1 THEN live ELSE other.live
DuoList(c) == IF c = 1 THEN messages ELSE other.messages

\* the state after a call of manager c that ended in world w
DuoBecomes(c, w, call) ==
    /\ sqlite' = w.sqlite
    /\ db' = w.db
    /\ store' = w.store
    /\ fallback' = w.fallback
    /\ memory' = w.memory
    /\ IF c = 1
       THEN /\ messages' = w.messages
            /\ maxTokens' = w.maxTokens
            /\ restoring' = w.restoring
            /\ live' = TRUE
            /\ other' = other
       ELSE /\ other' = [messages |-> w.messages, maxTokens |-> w.maxTokens,
                         restoring |-> w.restoring, live |-> TRUE]
            /\ UNCHANGED <<messages, maxTokens, restoring, live>>
    /\ last' = [call EXCEPT !.by = c, !.before = Len(DuoList(c)),
                            !.raised = w.raised, !.wrote = w.wrote,
                            !.committed = w.committed, !.removed = w.removed,
                            !.calls = w.calls, !.given = w.given,
                            !.loaded = w.loaded]
    /\ UNCHANGED <<options, driverInstalled, heap, synced, allWritesOk>>

\* new PersistentMessageManager({ memory, conversationId }), once for each
DuoConstruct ==
    \E c \in Controllers, limit \in TokenLimits :
        /\ ~DuoLive(c)
        /\ UNCHANGED faults
        /\ DuoBecomes(c, constructor(DuoWorld(c), options, limit, Calm),
                      [NoCall EXCEPT !.op = "construct"])

DuoAdd ==
    \E c \in Controllers, message \in AddInputs :
      \E e \in WriteEnvs(Len(DuoList(c)) + 1) :
        /\ DuoLive(c)
        /\ Len(DuoList(c)) < MaxDuo
        /\ Allowed(e)
        /\ DuoBecomes(c, add(DuoWorld(c), message, NoPosition, e),
                      [NoCall EXCEPT !.op = "add"])

DuoRemoveLast ==
    \E c \in Controllers :
      \E e \in WriteEnvs(Len(DuoList(c)) - 1) :
        /\ DuoLive(c)
        /\ Allowed(e)
        /\ DuoBecomes(c, removeLast(DuoWorld(c), e), [NoCall EXCEPT !.op = "removeLast"])

DuoClear ==
    \E c \in Controllers, e \in ClearEnvs :
        /\ DuoLive(c)
        /\ Allowed(e)
        /\ DuoBecomes(c, clear(DuoWorld(c), e), [NoCall EXCEPT !.op = "clear"])

DuoSetMaxTokens ==
    \E c \in Controllers, newMaxTokens \in TokenLimits :
      \E e \in WriteEnvs(Len(DuoList(c))) :
        /\ DuoLive(c)
        /\ Allowed(e)
        /\ DuoBecomes(c, setMaxTokens(DuoWorld(c), newMaxTokens, e),
                      [NoCall EXCEPT !.op = "setMaxTokens"])

\* the adapter both managers are given: a SQLiteChatMemory whose driver
\* loads, or an InMemoryChatMemory
DuoInit ==
    /\ options \in {"sqlite", "store"}
    /\ driverInstalled = (options = "sqlite")
    /\ Start

DuoNext ==
    \/ DuoConstruct
    \/ DuoAdd
    \/ DuoRemoveLast
    \/ DuoClear
    \/ DuoSetMaxTokens

DuoSpec == DuoInit /\ [][DuoNext]_vars

(***************************************************************************)
(* Properties.                                                             *)
(***************************************************************************)
\* what adapter.getMessages(conversationId) returns to the manager's own
\* adapter when nothing fails
StoredRows ==
    CASE memory = "sqlite" ->
            SQLiteGetMessages(sqlite, db, driverInstalled, "ok", ConversationId,
                              NoFault).rows
      [] memory = "store" -> InMemoryGetMessages(store, ConversationId)
      [] OTHER -> InMemoryGetMessages(fallback, ConversationId)

\* what getMessages(id) returns on the backend of an adapter run
BackendRows(id) ==
    IF options = "sqlite"
    THEN LET rows == selectMessages(db, id)
         IN  [i \in 1..Len(rows) |-> deserializeRow(rows[i])]
    ELSE InMemoryGetMessages(store, id)

\* one row per message, in order, role the kind tag, content the serialized content
Matches(rows, list) ==
    /\ Len(rows) = Len(list)
    /\ \A i \in 1..Len(list) :
        /\ rows[i].role = _getMessageType(list[i])
        /\ rows[i].content = normalizeContent(list[i]).content

Kinds(list) == [i \in 1..Len(list) |-> _getMessageType(list[i])]
Sequences(rows) == [i \in 1..Len(rows) |-> rows[i].sequence]
Ascending(rows) ==
    \A i \in 1..(Len(rows) - 1) : rows[i].sequence <= rows[i + 1].sequence
MutationOps == {"add", "removeLast", "setMaxTokens", "clear"}

\* what getMessages(id) of the in-memory adapter shows to a reader
Shown(id) == Seen(heap, InMemoryGetMessages(store, id))

\* C1 (as stated): for a live manager whose adapter writes have all
\* succeeded, after any add, removeLast, setMaxTokens or clear call the rows
\* getMessages returns match the in-memory list.  Violated: a manager whose
\* restore failed holds an empty list over stored rows, and removeLast on an
\* empty list returns false without writing.
C1_AfterAnyMutation ==
    (live /\ allWritesOk /\ last.op \in MutationOps) => Matches(StoredRows, messages)

\* C1 (amended): once a call of a live manager has asked the adapter to
\* write (add, setMaxTokens, clear, or a removeLast that removed a message)
\* and the latest such write was committed, the rows getMessages returns
\* are one per message of the in-memory list, in order, with role the kind
\* tag and content the serialized content.
C1_StoredMatchesList ==
    (live /\ synced) => Matches(StoredRows, messages)

C1_Witness ==
    /\ live /\ synced /\ memory = "sqlite"
    /\ last.op = "removeLast" /\ last.before = 3
    /\ Kinds(messages) = <<"tool", "ai">>
    /\ Matches(StoredRows, messages)

\* C2: when a manager whose latest write was committed is followed by a
\* fresh manager on the same store and conversation id, and nothing fails
\* while the fresh one is constructed, the fresh manager holds the same
\* number of messages with the same kind tags in the same order.
C2_RoundTrip ==
    [][(/\ live /\ synced /\ memory # "fallback"
        /\ last'.op = "construct" /\ memory' = memory /\ faults' = faults)
       => (Kinds(messages') = Kinds(messages) /\ last'.loaded = Len(messages))]_vars

C2_Witness ==
    /\ live /\ last.op = "construct" /\ memory = "sqlite"
    /\ last.before = 3 /\ last.loaded = 3
    /\ Kinds(messages) = <<"system", "ai", "human">>

\* C3: a clear() during which nothing fails leaves the in-memory list empty
\* and getMessages of the conversation returning zero rows, whatever was
\* added before and also when the clear is repeated; and a fresh manager
\* constructed right after a committed clear restores zero messages.
C3_ClearEmpties ==
    [][/\ (live /\ last'.op = "clear" /\ faults' = faults)
            => (messages' = <<>> /\ StoredRows' = <<>>)
       /\ (live /\ last.op = "clear" /\ last.committed /\ last'.op = "construct")
            => (messages' = <<>> /\ last'.loaded = 0)]_vars

C3_Witness ==
    /\ live /\ last.op = "clear" /\ last.before = 2 /\ last.committed
    /\ memory = "sqlite" /\ messages = <<>> /\ StoredRows = <<>>
    /\ ConversationId \notin DOMAIN db.conversations

\* C4: constructing a manager writes nothing: the file of the durable
\* backend and the map of the supplied in-memory adapter are the same after
\* the constructor as before, for every conversation, although each stored
\* row is replayed into the list.
C4_ConstructorWritesNothing ==
    [][last'.op = "construct" => (db' = db /\ store' = store)]_vars

C4_Witness ==
    /\ live /\ last.op = "construct" /\ memory = "sqlite"
    /\ last.loaded = 2 /\ Kinds(messages) = <<"ai", "tool">>
    /\ selectMessages(db, ConversationId)[1].role = "function"

\* C5: after a persisting call whose write was committed, the stored rows
\* of the conversation carry the sequence numbers 0..N-1 in order, N being
\* the length of the in-memory list.
C5_DenseSequences ==
    (live /\ synced) =>
        /\ Len(StoredRows) = Len(messages)
        /\ \A i \in 1..Len(StoredRows) : StoredRows[i].sequence = i - 1

C5_Witness ==
    /\ live /\ synced /\ last.op = "removeLast" /\ last.before = 3
    /\ memory = "sqlite"
    /\ Sequences(StoredRows) = <<0, 1>>

\* C6: a replaceConversation that does not commit (an insert or another
\* statement of the transaction fails) leaves the rows of every
\* conversation and the conversation records as they were; one that
\* commits leaves exactly as many rows as it was given.
C6_AllOrNothing ==
    [][last'.op = "replaceConversation" =>
        IF last'.committed
        THEN \A c \in Convs : c = last'.conv => Len(BackendRows(c)') = last'.before
        ELSE /\ \A c \in Convs : BackendRows(c)' = BackendRows(c)
             /\ db'.conversations = db.conversations
             /\ store' = store]_vars

C6_Witness ==
    /\ options = "sqlite" /\ sqlite.database
    /\ last.op = "replaceConversation" /\ last.fault = Fault("insert", 2)
    /\ ~last.committed /\ ~last.raised
    /\ last.before = 2
    /\ Sequences(BackendRows(last.conv)) = <<0, 1>>
    /\ BackendRows(last.conv)[1].role = "function"

\* C7 (as stated): a manager whose supplied adapter threw from initialize()
\* or answered isAvailable() = false uses the fallback.  Violated: an
\* adapter whose initialize() throws and whose isAvailable() answers true
\* is used.
C7_FallbackWhenInitializeThrows ==
    (last.op = "construct" /\ (last.initThrew \/ ~last.available))
        => memory = "fallback"

\* C7 (amended): the manager uses the fallback exactly when isAvailable()
\* answers false after the initialize attempt; on the fallback every add,
\* removeLast, clear and setMaxTokens returns normally with the list
\* changed accordingly; and a durable adapter whose driver is missing never
\* becomes available.
C7_FallbackWhenUnavailable ==
    [][/\ last'.op = "construct" => ((memory' = "fallback") <=> ~last'.available)
       /\ (live /\ memory = "fallback" /\ last'.op \in MutationOps) =>
            /\ ~last'.raised
            /\ memory' = "fallback"
            /\ last'.op = "add" => Len(messages') = Len(messages) + 1
            /\ last'.op = "removeLast" =>
                    /\ messages' = BaseRemoveLast(messages).list
                    /\ last'.removed = (messages # <<>>)
            /\ last'.op = "clear" => messages' = <<>>
            /\ last'.op = "setMaxTokens" => messages' = messages
            /\ Matches(StoredRows', messages') \/ last'.op = "removeLast"
       /\ ~driverInstalled => ~sqlite'.database]_vars

C7_Witness ==
    /\ live /\ memory = "fallback" /\ options = "sqlite"
    /\ ~driverInstalled /\ ~sqlite.database
    /\ last.op = "add" /\ Len(messages) = 2

\* C8 (as stated): no call on an adapter raises to its caller.  Violated:
\* replaceConversation and clearConversation of SQLiteChatMemory create
\* their transaction outside the try block.
C8_NeverRaises == ~last.raised

\* C9: replaceConversation and clearConversation on one conversation id
\* leave what getMessages returns for every other id unchanged.
C9_Isolation ==
    [][\A c \in Convs :
        (last'.op \in {"replaceConversation", "clearConversation"} /\ last'.conv # c)
            => BackendRows(c)' = BackendRows(c)]_vars

C9_Witness ==
    /\ options = "sqlite"
    /\ last.op = "replaceConversation" /\ last.conv = "A" /\ last.committed
    /\ BackendRows("A") # <<>> /\ BackendRows("B") # <<>>
    /\ BackendRows("A") # BackendRows("B")

\* C10 (as stated): getMessages returns its rows in ascending order of
\* sequence on both backends.  Violated: InMemoryChatMemory returns the
\* rows in the order they were given to replaceConversation.
C10_Ascending ==
    last.op = "getMessages" => Ascending(last.rows)

\* C11 (as stated): whatever a caller changes in a row list it passed to
\* replaceConversation or in rows it got from getMessages (a top-level
\* field, a metadata key, a value nested inside metadata), what getMessages
\* shows for every conversation stays the same.  Violated: the copy is one
\* level deep in metadata, so a nested tool-call list is shared with the
\* caller.
C11_DeepCopies ==
    [][last'.op = "mutate" => \A c \in Convs : Shown(c)' = Shown(c)]_vars

\* the message a chain started from, and that message after
\* serializeMessage then deserializeMessage
RoundTripped ==
    /\ Len(messages) = 2 /\ Len(last.rows) = 1
    /\ last.rows[1] = serializeMessage(messages[1], 0, 1)

\* C12: for a system, human, ai or tool message whose content is a string
\* or a structure JSON can encode, serializeMessage then deserializeMessage
\* gives a message of the same kind with the same content: a structure is
\* restored as the equal structure, a string as the same string, also when
\* the string is valid JSON text.
C12_ContentRoundTrip ==
    (RoundTripped /\ messages[1].content # Cyclic) =>
        /\ messages[2].content = messages[1].content
        /\ messages[2].kind = messages[1].kind

C12_Witness ==
    /\ RoundTripped
    /\ messages[1].kind = "human" /\ messages[1].content = Str("[1]")
    /\ messages[2].content = Str("[1]")

\* C13: initialize() and isAvailable() of SQLiteChatMemory never raise and
\* leave the stored rows alone; once the object has initialized, every
\* later call leaves the object as it is (same handle, same statements: the
\* file is opened and the statements are prepared once); and isAvailable()
\* answers true exactly when initialization has succeeded.
C13_InitializeIdempotent ==
    [][options = "sqlite" =>
        /\ last'.op \in {"initialize", "isAvailable"} => (~last'.raised /\ db' = db)
        /\ sqlite.database => sqlite' = sqlite
        /\ sqlite'.opens <= 1
        /\ sqlite'.database <=> (sqlite'.opens = 1)
        /\ sqlite'.database <=> sqlite'.statements
        /\ sqlite'.database <=> sqlite'.initialized
        /\ last'.op = "isAvailable" => (last'.answer <=> sqlite'.initialized)]_vars

C13_Witness ==
    /\ options = "sqlite" /\ last.op = "initialize"
    /\ sqlite.database /\ sqlite.opens = 1 /\ faults = 1
    /\ db.chat_messages # <<>>

\* C14: a restore stops at the first row that fails: the rows before it are
\* in the list in their stored order, no row after it is tried, the
\* constructor does not raise and the restoring flag is cleared; when the
\* rows cannot be loaded the controller starts with an empty list
C14_RestoreFailFast ==
    last.op = "construct" =>
        /\ ~last.raised
        /\ live
        /\ ~restoring
        /\ last.loaded = 0 => messages = <<>>
        /\ last.failedAt = 0 => Len(messages) = last.loaded
        /\ last.failedAt # 0 =>
                /\ last.restoreThrew
                /\ last.failedAt <= last.loaded
                /\ last.loaded = Len(StoredRows)
                /\ messages = [i \in 1..(last.failedAt - 1) |->
                                    deserializeMessage(StoredRows[i])]

\* a restore of three stored rows that stopped at the second one
C14_Witness ==
    /\ last.op = "construct"
    /\ last.loaded = 3
    /\ last.failedAt = 2
    /\ Len(messages) = 1
    /\ ~restoring

\* C15 as stated: every add, removeLast and setMaxTokens makes exactly one
\* replaceConversation call with the rows of the whole list, and clear makes
\* exactly one clearConversation call
C15_OneCallPerMutation ==
    (live /\ last.op \in MutationOps) =>
        IF last.op = "clear" THEN last.calls = <<"clearConversation">>
        ELSE /\ last.calls = <<"replaceConversation">>
             /\ last.given = SerializeAll(messages, 1)

\* C15 amended: add, setMaxTokens and a removeLast that removed a message
\* make exactly one replaceConversation call with the rows of the whole
\* list; a removeLast on an empty list makes no adapter call; clear makes
\* exactly one clearConversation call
C15_OneCallPerChange ==
    (live /\ last.op \in MutationOps) =>
        CASE last.op = "clear" -> last.calls = <<"clearConversation">>
          [] last.op = "removeLast" /\ ~last.removed ->
                /\ last.calls = <<>>
                /\ last.before = 0
                /\ messages = <<>>
          [] OTHER -> /\ last.calls = <<"replaceConversation">>
                      /\ last.given = SerializeAll(messages, 1)

\* a removeLast on an empty list, which reached no adapter
C15_Witness ==
    /\ live
    /\ last.op = "removeLast"
    /\ ~last.removed
    /\ last.calls = <<>>
    /\ StoredRows # <<>>

\* C19 as stated: the restoring flag is down in every state between two
\* calls, and no add, removeLast, clear or setMaxTokens after construction
\* skips the adapter
C19_NeverSkipped ==
    /\ ~restoring
    /\ (live /\ last.op \in MutationOps) => last.calls # <<>>

\* C19 amended: the restoring flag is down in every state between two calls;
\* no add, setMaxTokens or clear after construction skips the adapter, and a
\* removeLast skips it exactly when it removed nothing
C19_RestoringCleared ==
    /\ ~restoring
    /\ (live /\ last.op \in {"add", "setMaxTokens", "clear"}) => last.calls # <<>>
    /\ (live /\ last.op = "removeLast") => (last.removed <=> last.calls # <<>>)

\* an add that reached the adapter right after a restore that stopped early
C19_Witness ==
    /\ last.afterPartial
    /\ last.op = "add"
    /\ last.calls = <<"replaceConversation">>
    /\ last.committed
    /\ ~restoring

\* C20: after a restore that stopped early the store still holds every row
\* that was loaded, more than the list has messages; the first mutation
\* written after it (last.afterPartial, with last.loaded the rows that
\* restore had loaded) leaves exactly the rows of the shortened list in the
\* store
C20_PartialRestoreOverwrites ==
    /\ (last.op = "construct" /\ last.failedAt # 0) =>
            /\ Len(StoredRows) = last.loaded
            /\ Len(messages) < last.loaded
    /\ (/\ last.afterPartial
        /\ last.op \in {"add", "removeLast", "setMaxTokens"}
        /\ last.committed) =>
            /\ Matches(StoredRows, messages)
            /\ last.op # "add" => Len(StoredRows) < last.loaded
            /\ last.op = "add" => Len(StoredRows) <= last.loaded

\* a setMaxTokens after a restore that kept one of the stored rows: one row
\* is left in the store
C20_Witness ==
    /\ last.afterPartial
    /\ last.op = "setMaxTokens"
    /\ last.committed
    /\ last.before = 1
    /\ last.loaded = 2
    /\ Len(StoredRows) = 1
    /\ memory = "sqlite"

\* the latest conversion: a message and the row made of it, or a row and
\* the message made of it
LatestMessage == messages[Len(messages)]
LatestRow == last.rows[Len(last.rows)]
ContentIsJson(row) == MetaGet(row.metadata, "contentIsJson") = True

\* C16: a row made by serializeMessage has a string content; a string
\* content is copied as it is without the flag, a content whose encoding
\* throws is stored as its string conversion without the flag, any other
\* content is stored as its JSON text with metadata.contentIsJson true; the
\* row has no metadata at all when no entry applies, never an empty map
C16_ContentIsString ==
    last.op = "serializeMessage" =>
        /\ LatestRow.content.t = "string"
        /\ LatestMessage.content.t = "string" =>
                /\ LatestRow.content = LatestMessage.content
                /\ ~ContentIsJson(LatestRow)
        /\ LatestMessage.content = Cyclic =>
                /\ LatestRow.content = Str("[object Object]")
                /\ ~ContentIsJson(LatestRow)
        /\ (LatestMessage.content.t # "string" /\ LatestMessage.content # Cyclic) =>
                /\ ContentIsJson(LatestRow)
                /\ JSONparse(LatestRow.content.v) =
                        [threw |-> FALSE, value |-> LatestMessage.content]
        /\ LatestRow.metadata # Undefined =>
                /\ LatestRow.metadata.t = "metadata"
                /\ DOMAIN LatestRow.metadata.f # {}
        /\ (/\ LatestMessage.kind \in {"system", "human"}
            /\ ~ContentIsJson(LatestRow)
            /\ ~HasKeys(LatestMessage.additional_kwargs)) =>
                LatestRow.metadata = Undefined

\* a human message whose content cannot be encoded: the row holds the
\* string conversion and has no metadata
C16_Witness ==
    /\ last.op = "serializeMessage"
    /\ LatestMessage.kind = "human"
    /\ LatestMessage.content = Cyclic
    /\ LatestRow.content = Str("[object Object]")
    /\ LatestRow.metadata = Undefined

\* C17: deserializeMessage gives a message for every row: of the kind of
\* the role for system, human, tool, browser_state and todo_list, an AI
\* message for ai and for any other role; a tool message takes its id from
\* metadata.toolCallId when that is a string and the empty string otherwise;
\* browser_state and todo_list messages have a string content; a row made
\* again from the message keeps a known role and has role ai otherwise
C17_DispatchOnRole ==
    /\ (last.op = "deserializeMessage") =>
            /\ LatestMessage.kind =
                    (IF LatestRow.role \in MessageTypes \ {"ai"}
                     THEN LatestRow.role ELSE "ai")
            /\ LatestRow.role = "tool" =>
                    LatestMessage.tool_call_id =
                        (IF MetaGet(LatestRow.metadata, "toolCallId").t = "string"
                         THEN MetaGet(LatestRow.metadata, "toolCallId") ELSE Str(""))
            /\ LatestRow.role \in {"browser_state", "todo_list"} =>
                    LatestMessage.content.t = "string"
    /\ (last.op = "serializeMessage" /\ Len(last.rows) = 2) =>
            last.rows[2].role =
                (IF last.rows[1].role \in MessageTypes THEN last.rows[1].role ELSE "ai")

\* a row of a role outside the six kinds, restored as an AI message and
\* written again as an ai row
C17_Witness ==
    /\ last.op = "serializeMessage"
    /\ Len(last.rows) = 2
    /\ last.rows[1].role = "function"
    /\ messages[1].kind = "ai"
    /\ last.rows[2].role = "ai"

\* C18: getMessages of SQLiteChatMemory returns one row per stored row of
\* the conversation, in ascending sequence, with the stored role, content
\* and sequence; a row whose metadata column is not JSON has metadata
\* undefined and the other rows have their decoded metadata; the result is
\* empty for a conversation with rows only when the query fails or the
\* database is not open
C18_UndecodableMetadata ==
    (options = "sqlite" /\ last.op = "getMessages") =>
        LET stored == selectMessages(db, last.conv)
        IN  IF last.fault.at = "query" \/ ~sqlite.database
            THEN last.rows = <<>>
            ELSE /\ Len(last.rows) = Len(stored)
                 /\ Ascending(last.rows)
                 /\ \A i \in 1..Len(stored) :
                        /\ last.rows[i].role = stored[i].role
                        /\ last.rows[i].content = stored[i].content
                        /\ last.rows[i].sequence = stored[i].sequence
                        /\ stored[i].metadata = CorruptText =>
                                last.rows[i].metadata = Undefined
                        /\ stored[i].metadata = SqlNull =>
                                last.rows[i].metadata = Undefined
                        /\ (stored[i].metadata.t = "text"
                                /\ stored[i].metadata # CorruptText) =>
                                last.rows[i].metadata = Meta(stored[i].metadata.f)

\* two rows read back, the first with a metadata column that is not JSON,
\* the second with its metadata
C18_Witness ==
    /\ options = "sqlite"
    /\ last.op = "getMessages"
    /\ Len(last.rows) = 2
    /\ selectMessages(db, last.conv)[1].metadata = CorruptText
    /\ last.rows[1].role = "function"
    /\ last.rows[1].content = Str("[1]")
    /\ last.rows[1].metadata = Undefined
    /\ last.rows[2].metadata = Meta([toolCallId |-> Str("c1")])

\* the calls a caller makes on a SQLiteChatMemory object
AdapterOps ==
    {"initialize", "isAvailable", "replaceConversation", "getMessages",
     "clearConversation"}

\* C21: between the calls on a SQLiteChatMemory object the handle is set
\* exactly when the statements are; an object that has its handle keeps it,
\* and isAvailable() answers whether the handle is set, so its answer never
\* goes from true to false; an object without a handle tries to open again
\* in every call, and gets its handle when the driver can be loaded and
\* nothing fails in that call
C21_AvailabilityMonotone ==
    [][options = "sqlite" =>
        /\ sqlite'.database <=> sqlite'.statements
        /\ sqlite.database => sqlite'.database
        /\ last'.op = "isAvailable" => (last'.answer <=> sqlite'.database)
        /\ (/\ ~sqlite.database
            /\ last'.op \in AdapterOps
            /\ sqlite.driver \/ driverInstalled
            /\ faults' = faults) => sqlite'.database
        /\ (/\ ~sqlite.database
            /\ last'.op \in AdapterOps
            /\ ~(sqlite.driver \/ driverInstalled)) => ~sqlite'.database]_vars

\* an isAvailable() that answers true on an object whose earlier
\* initialization had failed with the driver loaded
C21_Witness ==
    /\ options = "sqlite"
    /\ last.op = "isAvailable"
    /\ last.retried
    /\ last.answer
    /\ sqlite.database
    /\ sqlite.statements
    /\ faults = 1

\* C22: with two managers on one adapter and one conversation id, after a
\* call of either that changed its list or cleared it and whose write was
\* committed, the stored rows are one per message of the list of the
\* manager that made the call, in order, and nothing else, whatever the
\* other manager had stored; a call whose write was not committed, or that
\* wrote nothing, leaves the database file and the in-memory store as they
\* were
C22_LastWriterWins ==
    [][last'.op \in MutationOps =>
        IF last'.committed
        THEN LET rows == StoredRows'
             IN  /\ last'.by = 1 => Matches(rows, messages')
                 /\ last'.by = 2 => Matches(rows, other'.messages)
        ELSE /\ db' = db
             /\ store' = store]_vars

\* manager 1 adds to its empty list after manager 2, constructed later,
\* had stored two messages: one row is left, the one of manager 1
C22_Witness ==
    /\ memory = "sqlite"
    /\ last.op = "add"
    /\ last.by = 1
    /\ last.committed
    /\ Len(messages) = 1
    /\ Len(other.messages) = 2
    /\ Kinds(other.messages) = <<"tool", "tool">>
    /\ Kinds(messages) = <<"human">>
    /\ Matches(StoredRows, messages)

====
